---- MODULE Spec2Model ----
(***************************************************************************)
(* A model of rust-pram: the /proc/<pid>/maps line parser, the pagemap     *)
(* offset iterator, the pagemap entry bitfield, the parallel frame-index   *)
(* builder (all_pages) and the range compressor (compress).                *)
(*                                                                         *)
(* A u64 whose high bits matter (a pagemap entry, a parsed number) is the  *)
(* set of the positions of its one bits, a subset of 0..63.  Frame numbers *)
(* used as BTreeMap keys and the addresses of page_offsets are naturals    *)
(* far below 2^31, where no u64 addition or subtraction of the code wraps. *)
(***************************************************************************)
EXTENDS Integers, Sequences, FiniteSets, TLC

VARIABLES
    pc,         \* position of the unit under execution
    \* compress (src/main.rs)
    pages,      \* the FrameIndex given to compress
    iter,       \* keys of pages the for loop has not visited yet
    start,      \* local start
    prev,       \* local prev
    ret,        \* local ret : BTreeMap<PageRange, BTreeSet<Process>>
    \* Page (src/proc/pagemap.rs)
    page,       \* the u64 of a Page
    decoded,    \* what the accessors of page return, once they were called
    \* Map::page_offsets, PageOffsets (src/proc/maps.rs)
    address_range,  \* Map::address_range of the mapping
    page_size,      \* sysconf(PAGE_SIZE) of the host
    page_offsets,   \* the PageOffsets iterator, once it was made
    collected,      \* the offsets the iterator has yielded so far
    \* all_pages (src/main.rs)
    scans,      \* what read_pages returns for each process of procs
    todo,       \* pids whose map closure has not run yet
    parts,      \* partial indices the reduce has not combined yet, by slot
    panics,     \* pids whose closure panicked in expect, each with its message
    unwound,    \* the pid named by the panic all_pages unwinds with, or 0
    result,     \* the FrameIndex all_pages returned, once it did
    \* TryInto<Map> for &str (src/proc/maps.rs)
    printed,    \* the fields the line was printed from
    line,       \* the &str given to try_into, one character per element
    parsed      \* the Result try_into returned, once it did

compressVars == <<pages, iter, start, prev, ret>>
pageVars == <<page, decoded>>
offsetVars == <<address_range, page_size, page_offsets, collected>>
buildVars == <<scans, todo, parts, panics, unwound, result>>
parseVars == <<printed, line, parsed>>
vars == <<pc, compressVars, pageVars, offsetVars, buildVars, parseVars>>

\* what the actions of one unit leave alone
notCompress == <<pageVars, offsetVars, buildVars, parseVars>>
notPage == <<compressVars, offsetVars, buildVars, parseVars>>
notOffsets == <<compressVars, pageVars, buildVars, parseVars>>
notBuild == <<compressVars, pageVars, offsetVars, parseVars>>
notParse == <<compressVars, pageVars, offsetVars, buildVars>>

-----------------------------------------------------------------------------
(* Bounds of the model *)

\* number of processes in the process list
NumProcs == 3
\* greatest frame number of a FrameIndex given to compress
MaxFrame == 4
\* greatest virtual page number at which a mapping ends
MaxPageNo == 5
\* greatest number of pagemap entries read_pages returns in one run, over all
\* processes
MaxEntries == 3

-----------------------------------------------------------------------------
(* BTreeMap and BTreeSet, as far as the program uses them *)

EmptyMap == [k \in {} |-> {}]

MapInsert(m, k, v) == [x \in (DOMAIN m) \cup {k} |-> IF x = k THEN v ELSE m[x]]

Min(S) == CHOOSE x \in S : \A y \in S : x <= y

Max(S) == CHOOSE x \in S : \A y \in S : y <= x

-----------------------------------------------------------------------------
(* The state of a unit that is not under execution *)

IdleCompress ==
    /\ pages = EmptyMap
    /\ iter = {}
    /\ start = 0
    /\ prev = 0
    /\ ret = EmptyMap

IdlePage ==
    /\ page = {}
    /\ decoded = <<>>

IdleOffsets ==
    /\ address_range = [start |-> 0, end |-> 0]
    /\ page_size = 0
    /\ page_offsets = <<>>
    /\ collected = <<>>

IdleParse ==
    /\ printed = <<>>
    /\ line = <<>>
    /\ parsed = <<>>

IdleBuild ==
    /\ scans = <<>>
    /\ todo = {}
    /\ parts = EmptyMap
    /\ panics = {}
    /\ unwound = 0
    /\ result = <<>>

-----------------------------------------------------------------------------
(* Process: equality and ordering by pid alone *)

Pids == 1..NumProcs

\* every process of the list was started from the same command line
Process(pid) == [pid |-> pid, cmdline |-> "sh"]

ProcessEq(a, b) == a.pid = b.pid

ProcessList == {Process(p) : p \in Pids}

\* BTreeSet::insert keeps the element already present when an equal one is inserted
BTreeSetInsert(S, p) == IF \E q \in S : ProcessEq(q, p) THEN S ELSE S \cup {p}

OwnerSets == (SUBSET ProcessList) \ {{}}

-----------------------------------------------------------------------------
(* u64 as the set of the positions of its one bits *)

Shl(v, n) == {i + n : i \in {j \in v : j + n <= 63}}

Shr(v, n) == {i - n : i \in {j \in v : j >= n}}

RECURSIVE Pow2(_)
Pow2(n) == IF n = 0 THEN 1 ELSE 2 * Pow2(n - 1)

\* the u64 of a natural below 2^31
FromNat(n) == {i \in 0..30 : (n \div Pow2(i)) % 2 = 1}

RECURSIVE ToNat(_)
\* the natural of a u64 below 2^31
ToNat(v) == IF v = {} THEN 0 ELSE LET i == Max(v) IN Pow2(i) + ToNat(v \ {i})

-----------------------------------------------------------------------------
(* Page: the bitfield over one pagemap entry *)

\* bitfield::BitRange<u64>::bit_range for u64
bit_range(v, msb, lsb) == Shr(Shr(Shl(v, 63 - msb), 63 - msb), lsb)

\* bitfield::Bit::bit
bit(v, n) == bit_range(v, n, n) # {}

\* in_ram declared one bit too low
in_ram_bit62(v) == bit(v, 62)

in_ram(v) == bit(v, 63)

in_swap(v) == bit(v, 62)

is_file_mapped(v) == bit(v, 61)

is_shared_anonymous(v) == bit(v, 61)

is_exclusively_mapped(v) == bit(v, 56)

is_soft_dirty(v) == bit(v, 55)

\* page_frame_number declared as 55, 0
page_frame_number_wide(v) == bit_range(v, 55, 0)

page_frame_number(v) == bit_range(v, 54, 0)

\* the bits the pagemap entries of the model are built from
PageBits == {0, 1, 2, 53, 54, 55, 56, 57, 61, 62, 63}

PageInputs == SUBSET PageBits

InitPage ==
    /\ pc = "page"
    /\ page \in PageInputs
    /\ decoded = <<>>
    /\ IdleCompress
    /\ IdleOffsets
    /\ IdleBuild
    /\ IdleParse

\* every accessor is called on the page, as Debug::fmt and the tests do
PageAccessors ==
    /\ pc = "page"
    /\ decoded' = << [in_ram |-> in_ram(page),
                      in_swap |-> in_swap(page),
                      is_file_mapped |-> is_file_mapped(page),
                      is_shared_anonymous |-> is_shared_anonymous(page),
                      is_exclusively_mapped |-> is_exclusively_mapped(page),
                      is_soft_dirty |-> is_soft_dirty(page),
                      page_frame_number |-> page_frame_number(page)] >>
    /\ pc' = "page_done"
    /\ UNCHANGED <<page, notPage>>

NextPage == PageAccessors

SpecPage == InitPage /\ [][NextPage]_vars

\* C8: the decoded page_frame_number is the low 55 bits of the entry whatever
\* its bits 55..63 are, and each flag is one bit of the entry: resident 63,
\* swapped 62, file-mapped and shared-anonymous 61, exclusively-mapped 56,
\* soft-dirty 55; 0 decodes to no flag and frame 0, 1 to no flag and frame 1.
C8_PageDecode ==
    pc = "page_done" =>
        LET d == decoded[1] IN
        /\ d.page_frame_number = page \cap (0..54)
        /\ d.in_ram = (63 \in page)
        /\ d.in_swap = (62 \in page)
        /\ d.is_file_mapped = (61 \in page)
        /\ d.is_shared_anonymous = (61 \in page)
        /\ d.is_exclusively_mapped = (56 \in page)
        /\ d.is_soft_dirty = (55 \in page)
        /\ page \in {FromNat(0), FromNat(1)} =>
              /\ ToNat(d.page_frame_number) = ToNat(page)
              /\ ~ d.in_ram /\ ~ d.in_swap /\ ~ d.is_file_mapped
              /\ ~ d.is_shared_anonymous /\ ~ d.is_exclusively_mapped
              /\ ~ d.is_soft_dirty

\* an entry with flag bits set above a non-zero frame number was decoded
C8_Witness ==
    /\ pc = "page_done"
    /\ {54, 55, 56, 61, 63} \subseteq page
    /\ 54 \in decoded[1].page_frame_number
    /\ decoded[1].in_ram

-----------------------------------------------------------------------------
(* Checked u64 arithmetic on bit sets, as u64::from_str_radix uses it *)

WideShl(v, n) == {i + n : i \in v}

RECURSIVE Add(_, _)
\* a + b without a width: sum bits plus carries
Add(a, b) == IF b = {} THEN a ELSE Add((a \ b) \cup (b \ a), WideShl(a \cap b, 1))

MulRadix(v, radix) ==
    IF radix = 16 THEN WideShl(v, 4) ELSE Add(WideShl(v, 3), WideShl(v, 1))

FitsU64(v) == \A i \in v : i <= 63

HexDigits == <<"0", "1", "2", "3", "4", "5", "6", "7", "8", "9", "a", "b", "c", "d", "e", "f">>

DigitValue(c) == (CHOOSE i \in 1..16 : HexDigits[i] = c) - 1

RECURSIVE FromStrRadixAcc(_, _, _)
FromStrRadixAcc(digits, radix, acc) ==
    IF digits = <<>> THEN [ok |-> TRUE, value |-> acc]
    ELSE LET mul == MulRadix(acc, radix)
             sum == Add(mul, FromNat(DigitValue(Head(digits))))
         IN  IF ~ FitsU64(mul) \/ ~ FitsU64(sum)
             THEN [ok |-> FALSE, value |-> {}]
             ELSE FromStrRadixAcc(Tail(digits), radix, sum)

\* u64::from_str_radix on a non-empty run of digits of the radix: the value,
\* or the error of a number too large for u64
from_str_radix(digits, radix) == FromStrRadixAcc(digits, radix, {})

-----------------------------------------------------------------------------
(* MAP_RE and TryInto<Map> for &str *)

DigitChars == {"0", "1", "2", "3", "4", "5", "6", "7", "8", "9"}

HexChars == DigitChars \cup {"a", "b", "c", "d", "e", "f"}

SpaceChars == {" ", "\t"}

InClass(c, class) ==
    CASE class = "hex"   -> c \in HexChars
      [] class = "digit" -> c \in DigitChars
      [] class = "space" -> c \in SpaceChars
      [] class = "dash"  -> c = "-"
      [] class = "colon" -> c = ":"
      [] class = "any"   -> c # "\n"

\* MAP_RE between ^ and $: each item is a character class repeated min times
\* (many = FALSE) or min times or more, as often as possible (many = TRUE)
MAP_RE == <<
    [class |-> "hex",   min |-> 1, many |-> TRUE],     \* from
    [class |-> "dash",  min |-> 1, many |-> FALSE],
    [class |-> "hex",   min |-> 1, many |-> TRUE],     \* to
    [class |-> "space", min |-> 1, many |-> TRUE],
    [class |-> "any",   min |-> 4, many |-> FALSE],    \* permissions
    [class |-> "space", min |-> 1, many |-> TRUE],
    [class |-> "hex",   min |-> 1, many |-> TRUE],     \* offset
    [class |-> "space", min |-> 1, many |-> TRUE],
    [class |-> "any",   min |-> 2, many |-> FALSE],    \* dev
    [class |-> "colon", min |-> 1, many |-> FALSE],    \* dev
    [class |-> "any",   min |-> 2, many |-> FALSE],    \* dev
    [class |-> "space", min |-> 1, many |-> TRUE],
    [class |-> "digit", min |-> 1, many |-> TRUE],     \* inode
    [class |-> "space", min |-> 0, many |-> TRUE],
    [class |-> "any",   min |-> 0, many |-> TRUE] >>   \* path, absent when empty

\* the length of the longest run of characters of the class at pos
RunLength(str, pos, class) ==
    Max({n \in 0..(Len(str) + 1 - pos) :
            \A k \in 0..(n - 1) : InClass(str[pos + k], class)})

RECURSIVE MatchFrom(_, _, _), MatchWithLength(_, _, _, _)

\* item i of MAP_RE taking n characters at pos, or fewer when the rest of the
\* expression does not match after n: the choices in the order a backtracking
\* matcher tries them
MatchWithLength(str, i, pos, n) ==
    IF n < MAP_RE[i].min THEN [ok |-> FALSE, lens |-> <<>>]
    ELSE LET rest == MatchFrom(str, i + 1, pos + n)
         IN  IF rest.ok THEN [ok |-> TRUE, lens |-> <<n>> \o rest.lens]
             ELSE MatchWithLength(str, i, pos, n - 1)

\* the match of items i.. of MAP_RE at pos, up to $: the lengths the items take
MatchFrom(str, i, pos) ==
    IF i > Len(MAP_RE)
    THEN [ok |-> pos = Len(str) + 1, lens |-> <<>>]
    ELSE LET item == MAP_RE[i]
             run == RunLength(str, pos, item.class)
         IN  IF item.many THEN MatchWithLength(str, i, pos, run)
             ELSE IF run < item.min THEN [ok |-> FALSE, lens |-> <<>>]
             ELSE MatchWithLength(str, i, pos, item.min)

RECURSIVE SumTo(_, _)
SumTo(lens, i) == IF i = 0 THEN 0 ELSE lens[i] + SumTo(lens, i - 1)

\* the text items i..j of a match took
Capture(str, lens, i, j) == SubSeq(str, SumTo(lens, i - 1) + 1, SumTo(lens, j))

ErrNoMatch(str) == [ok |-> FALSE, error |-> "failed to match against line", text |-> str, map |-> <<>>]

ErrParseInt == [ok |-> FALSE, error |-> "number too large to fit in target type", text |-> <<>>, map |-> <<>>]

CaptureTrimmed(str, lens, i, j) ==
    LET text == Capture(str, lens, i, j)
        keep == {n \in 1..Len(text) : text[n] \notin SpaceChars}
    IN  IF keep = {} THEN <<>> ELSE SubSeq(text, Min(keep), Max(keep))

\* the path capture with str::trim applied
PathCaptureTrimmed(str, lens) ==
    LET text == CaptureTrimmed(str, lens, 15, 15) IN IF text = <<>> THEN <<>> ELSE <<text>>

\* captures.name("path").map(..): None when the group took no part
PathCapture(str, lens) ==
    LET text == Capture(str, lens, 15, 15) IN IF text = <<>> THEN <<>> ELSE <<text>>

\* try_into; an interned string is modelled by the string it resolves to
try_into(str) ==
    LET m == MatchFrom(str, 1, 1) IN
    IF ~ m.ok THEN ErrNoMatch(str)
    ELSE LET from == from_str_radix(Capture(str, m.lens, 1, 1), 16)
             to == from_str_radix(Capture(str, m.lens, 3, 3), 16)
             offset == from_str_radix(Capture(str, m.lens, 7, 7), 16)
             inode == from_str_radix(Capture(str, m.lens, 13, 13), 10)
         IN  IF ~ from.ok \/ ~ to.ok \/ ~ offset.ok \/ ~ inode.ok THEN ErrParseInt
             ELSE [ok |-> TRUE, error |-> "", text |-> <<>>,
                   map |-> << [address_range |-> [start |-> from.value, end |-> to.value],
                               permissions |-> Capture(str, m.lens, 5, 5),
                               offset |-> offset.value,
                               device |-> Capture(str, m.lens, 9, 11),
                               inode |-> inode.value,
                               path |-> PathCapture(str, m.lens)] >>]

\* what the lines of the model are printed from: the fields of
\* "%lx-%lx %c%c%c%c %llx %x:%x %lu" and the rest of the line
FromTexts ==
    {<<"0", "0", "2", "0", "0", "0", "0", "0">>,
     <<"7", "f", "1", "c">>,
     <<"1", "0", "0", "0", "0", "0", "0", "0", "0", "0", "0", "0", "0", "0", "0", "0", "0">>}

ToTexts ==
    {<<"0", "0", "2", "2", "5", "0", "0", "0">>}

PermTexts ==
    {<<"r", "-", "-", "p">>,
     <<"r", "w", "-", "s">>}

OffsetTexts ==
    {<<"0", "0", "0", "0", "0", "0", "0", "0">>,
     <<"1", "f", "0", "0", "0">>}

DevTexts ==
    {<<"0", "0", ":", "1", "2">>,
     <<"f", "d", ":", "0", "1">>}

InodeTexts ==
    {<<"0">>,
     <<"2", "8", "1", "4", "7", "4", "9", "7", "7", "4", "2", "1", "4", "0", "7">>,
     <<"1", "8", "4", "4", "6", "7", "4", "4", "0", "7", "3", "7", "0", "9", "5", "5", "1", "6", "1", "5">>,
     <<"1", "8", "4", "4", "6", "7", "4", "4", "0", "7", "3", "7", "0", "9", "5", "5", "1", "6", "1", "6">>}

TailTexts ==
    {<<>>,
     <<" ">>,
     <<"\t", " ">>,
     <<" ", " ", " ", " ", " ", " ", " ", " ", " ", " ", " ", " ", " ", " ", " ", " ", " ", " ", " ", " ", "/", "i", "n", "i", "t">>,
     <<" ", "/", "a", " ", "b">>,
     <<" ", "/", "t", "m", "p", "/", "x", " ">>,
     <<"\t", "[", "h", "e", "a", "p", "]">>,
     <<" ", "/", "f", " ", "(", "d", "e", "l", "e", "t", "e", "d", ")", " ", " ">>}

\* how a line departs from the format
Damages == {"none", "no dash", "not hex", "short permissions", "no colon",
            "no inode", "inode glued to device", "empty"}

PrintedLines ==
    [from : FromTexts, to : ToTexts, permissions : PermTexts, offset : OffsetTexts,
     device : DevTexts, inode : InodeTexts, tail : TailTexts, damage : Damages]

\* the line of the fields f
LineOf(f) ==
    LET sp == <<" ">> IN
    CASE f.damage = "none" ->
            f.from \o <<"-">> \o f.to \o sp \o f.permissions \o sp \o f.offset \o sp
                \o f.device \o sp \o f.inode \o f.tail
      [] f.damage = "no dash" ->
            f.from \o sp \o f.to \o sp \o f.permissions \o sp \o f.offset \o sp
                \o f.device \o sp \o f.inode \o f.tail
      [] f.damage = "not hex" ->
            <<"0", "x">> \o f.from \o <<"-">> \o f.to \o sp \o f.permissions \o sp
                \o f.offset \o sp \o f.device \o sp \o f.inode \o f.tail
      [] f.damage = "short permissions" ->
            f.from \o <<"-">> \o f.to \o sp \o SubSeq(f.permissions, 1, 2) \o sp
                \o f.offset \o sp \o f.device \o sp \o f.inode \o f.tail
      [] f.damage = "no colon" ->
            f.from \o <<"-">> \o f.to \o sp \o f.permissions \o sp \o f.offset \o sp
                \o SubSeq(f.device, 1, 2) \o SubSeq(f.device, 4, 5) \o sp \o f.inode \o f.tail
      [] f.damage = "no inode" ->
            f.from \o <<"-">> \o f.to \o sp \o f.permissions \o sp \o f.offset \o sp
                \o f.device \o sp \o <<"-">> \o f.tail
      [] f.damage = "inode glued to device" ->
            f.from \o <<"-">> \o f.to \o sp \o f.permissions \o sp \o f.offset \o sp
                \o f.device \o f.inode \o f.tail
      [] f.damage = "empty" -> <<>>

InitParse ==
    /\ pc = "try_into"
    /\ printed \in PrintedLines
    /\ line = LineOf(printed)
    /\ parsed = <<>>
    /\ IdleCompress
    /\ IdlePage
    /\ IdleOffsets
    /\ IdleBuild

TryInto ==
    /\ pc = "try_into"
    /\ parsed' = << try_into(line) >>
    /\ pc' = "try_into_done"
    /\ UNCHANGED <<printed, line, notParse>>

NextParse == TryInto

SpecParse == InitParse /\ [][NextParse]_vars

AllSpace(text) == \A n \in 1..Len(text) : text[n] \in SpaceChars

\* text without its leading whitespace
TrimStart(text) ==
    LET keep == {n \in 1..Len(text) : text[n] \notin SpaceChars}
    IN  IF keep = {} THEN <<>> ELSE SubSeq(text, Min(keep), Len(text))

\* text without its leading and trailing whitespace
Trim(text) ==
    LET keep == {n \in 1..Len(text) : text[n] \notin SpaceChars}
    IN  IF keep = {} THEN <<>> ELSE SubSeq(text, Min(keep), Max(keep))

\* digits without leading zeros
Significant(digits) ==
    LET nonzero == {n \in 1..Len(digits) : digits[n] # "0"}
    IN  IF nonzero = {} THEN <<>> ELSE SubSeq(digits, Min(nonzero), Len(digits))

\* u64::MAX in decimal
U64MaxText == <<"1", "8", "4", "4", "6", "7", "4", "4", "0", "7",
                "3", "7", "0", "9", "5", "5", "1", "6", "1", "5">>

\* digit texts of one length: a <= b
TextLeq(a, b) ==
    \/ a = b
    \/ \E n \in 1..Len(a) :
          /\ SubSeq(a, 1, n - 1) = SubSeq(b, 1, n - 1)
          /\ DigitValue(a[n]) < DigitValue(b[n])

HexFits(digits) == Len(Significant(digits)) <= 16

DecimalFits(digits) ==
    LET sig == Significant(digits)
    IN  Len(sig) < 20 \/ (Len(sig) = 20 /\ TextLeq(sig, U64MaxText))

\* the numbers of the printed line are u64 values
PrintedFits ==
    /\ HexFits(printed.from) /\ HexFits(printed.to) /\ HexFits(printed.offset)
    /\ DecimalFits(printed.inode)

\* the line of test_simple
TestSimple ==
    [from |-> <<"0", "0", "2", "0", "0", "0", "0", "0">>,
     to |-> <<"0", "0", "2", "2", "5", "0", "0", "0">>,
     permissions |-> <<"r", "-", "-", "p">>,
     offset |-> <<"0", "0", "0", "0", "0", "0", "0", "0">>,
     device |-> <<"0", "0", ":", "1", "2">>,
     inode |-> <<"2", "8", "1", "4", "7", "4", "9", "7", "7", "4", "2", "1", "4", "0", "7">>,
     tail |-> <<" ", " ", " ", " ", " ", " ", " ", " ", " ", " ",
                " ", " ", " ", " ", " ", " ", " ", " ", " ", " ", "/", "i", "n", "i", "t">>,
     damage |-> "none"]

\* a line that does not match MAP_RE yields the error that carries the line
NoMatchIsError ==
    printed.damage # "none" =>
        /\ ~ parsed[1].ok
        /\ parsed[1].map = <<>>
        /\ parsed[1].error = "failed to match against line"
        /\ parsed[1].text = line

-----------------------------------------------------------------------------
(* Map::page_offsets and the PageOffsets iterator *)

\* size_of::<u64>()
u64_size == 8

\* the page sizes of the hosts of the model
PageSizes == {4096, 16384}

\* a mapping of the kernel: start < end, both multiples of the page size
AddressRanges(ps) ==
    {r \in {[start |-> a * ps, end |-> b * ps] : a, b \in 0..MaxPageNo} : r.start < r.end}

\* page_offsets without the "- u64_size" of end
PageOffsetsNoLast(range, ps) ==
    [start |-> (range.start \div ps) * u64_size,
     end   |-> (range.end \div ps) * u64_size]

\* Map::page_offsets
PageOffsetsNew(range, ps) ==
    [start |-> (range.start \div ps) * u64_size,
     end   |-> (range.end \div ps) * u64_size - u64_size]

InitOffsets ==
    /\ pc = "page_offsets"
    /\ page_size \in PageSizes
    /\ address_range \in AddressRanges(page_size)
    /\ page_offsets = <<>>
    /\ collected = <<>>
    /\ IdleCompress
    /\ IdlePage
    /\ IdleBuild
    /\ IdleParse

PageOffsetsCall ==
    /\ pc = "page_offsets"
    /\ page_offsets' = << PageOffsetsNew(address_range, page_size) >>
    /\ pc' = "collect"
    /\ UNCHANGED <<address_range, page_size, collected, notOffsets>>

\* PageOffsets::next returning Some(current)
PageOffsetsNextSome ==
    /\ pc = "collect"
    /\ LET it == page_offsets[1]
           current == it.start IN
        /\ ~ (current > it.end)
        /\ page_offsets' = << [it EXCEPT !.start = it.start + u64_size] >>
        /\ collected' = Append(collected, current)
    /\ UNCHANGED <<pc, address_range, page_size, notOffsets>>

\* PageOffsets::next returning None
PageOffsetsNextNone ==
    /\ pc = "collect"
    /\ LET it == page_offsets[1]
           current == it.start IN
        current > it.end
    /\ pc' = "collect_done"
    /\ UNCHANGED <<offsetVars, notOffsets>>

NextOffsets == PageOffsetsCall \/ PageOffsetsNextSome \/ PageOffsetsNextNone

SpecOffsets == InitOffsets /\ [][NextOffsets]_vars

\* the number of virtual pages of the mapping
NumPages == (address_range.end - address_range.start) \div page_size

\* C7: for a mapping with start < end, both multiples of the page size,
\* page_offsets yields one offset per virtual page, strictly increasing in
\* steps of 8 from (start / page_size) * 8 to (end / page_size) * 8 - 8, and
\* never more; [0, 0x2000) with page size 4096 yields exactly [0, 8].
C7_PageOffsets ==
    /\ Len(collected) <= NumPages
    /\ \A i \in 1..Len(collected) :
          collected[i] = (address_range.start \div page_size) * 8 + 8 * (i - 1)
    /\ pc = "collect_done" =>
          /\ Len(collected) = NumPages
          /\ collected[1] = (address_range.start \div page_size) * 8
          /\ \A i \in 1..(Len(collected) - 1) : collected[i + 1] - collected[i] = 8
          /\ collected[Len(collected)] = (address_range.end \div page_size) * 8 - 8
          /\ (address_range = [start |-> 0, end |-> 8192] /\ page_size = 4096)
                => collected = <<0, 8>>

\* the offsets of the mapping [0, 0x2000) of test_page_offsets were collected
C7_Witness ==
    /\ pc = "collect_done"
    /\ address_range = [start |-> 0, end |-> 8192]
    /\ page_size = 4096
    /\ Len(collected) = 2

-----------------------------------------------------------------------------
(* all_pages: the map closure, the reduce, and the panic of expect *)

\* BTreeSet::extend: one insert per element
BTreeSetExtend(S, T) == S \cup {t \in T : ~ \E q \in S : ProcessEq(q, t)}

\* the pagemap entries of the model: resident in frame 1, resident in frame 2
\* with bits 55 and 56 set, swapped out with 1 in the frame field
PageEntries == {{63, 0}, {63, 56, 55, 1}, {62, 0}}

RECURSIVE SeqsUpTo(_, _)
SeqsUpTo(S, n) ==
    IF n = 0 THEN {<<>>}
    ELSE LET shorter == SeqsUpTo(S, n - 1)
         IN  shorter \cup {Append(q, x) : q \in shorter, x \in S}

\* Result<BTreeMap<Map, Vec<Page>>> with at most n pages: Err, or the pages in
\* the order the two nested for loops of the closure visit them
ReadPagesResults(n) ==
    {[ok |-> FALSE, pages |-> <<>>]} \cup
    {[ok |-> TRUE, pages |-> q] : q \in SeqsUpTo(PageEntries, n)}

RECURSIVE ScansOf(_, _)
\* what read_pages returns for the processes 1..n when the pagemaps of the
\* host hold at most k entries in all
ScansOf(n, k) ==
    IF n = 0 THEN {<<>>}
    ELSE UNION {{Append(sq, r) : sq \in ScansOf(n - 1, k - Len(r.pages))} :
                    r \in ReadPagesResults(k)}

RECURSIVE InsertPagesUnfiltered(_, _, _)
\* the two for loops without the in_ram test
InsertPagesUnfiltered(proc, pgs, page_map) ==
    IF pgs = <<>> THEN page_map
    ELSE LET pg == Head(pgs)
             k == ToNat(page_frame_number(pg))
             set == IF k \in DOMAIN page_map THEN page_map[k] ELSE {}
         IN  InsertPagesUnfiltered(proc, Tail(pgs),
                 MapInsert(page_map, k, BTreeSetInsert(set, proc)))

RECURSIVE InsertPages(_, _, _)
\* the two for loops of the closure over the pages of one process
InsertPages(proc, pgs, page_map) ==
    IF pgs = <<>> THEN page_map
    ELSE LET pg == Head(pgs)
             k == ToNat(page_frame_number(pg))
             set == IF k \in DOMAIN page_map THEN page_map[k] ELSE {}
         IN  InsertPages(proc, Tail(pgs),
                 IF ~ in_ram(pg) THEN page_map
                 ELSE MapInsert(page_map, k, BTreeSetInsert(set, proc)))

\* the identity closure of reduce
identity == EmptyMap

\* a combining closure that inserts the sets of b over those of a
reduce_op_overwrite(a, b) ==
    [k \in (DOMAIN a) \cup (DOMAIN b) |-> IF k \in DOMAIN b THEN b[k] ELSE a[k]]

\* the combining closure of reduce
reduce_op(a, b) ==
    [k \in (DOMAIN a) \cup (DOMAIN b) |->
        IF k \in DOMAIN b
        THEN BTreeSetExtend(IF k \in DOMAIN a THEN a[k] ELSE {}, b[k])
        ELSE a[k]]

InitBuild ==
    /\ pc = "all_pages"
    /\ scans \in ScansOf(NumProcs, MaxEntries)
    /\ todo = Pids
    /\ parts = EmptyMap
    /\ panics = {}
    /\ unwound = 0
    /\ result = <<>>
    /\ IdleCompress
    /\ IdlePage
    /\ IdleOffsets
    /\ IdleParse

\* a failed scan is dropped and the closure returns an empty page_map
MapClosureSkipsErr ==
    /\ pc = "all_pages"
    /\ \E p \in todo :
        /\ ~ scans[p].ok
        /\ todo' = todo \ {p}
        /\ parts' = MapInsert(parts, p, reduce_op(identity, EmptyMap))
    /\ UNCHANGED <<pc, scans, panics, unwound, result, notBuild>>

\* the closure of map on one process whose read_pages is Ok; the folder of
\* reduce combines its page_map into identity()
MapClosureOk ==
    /\ pc = "all_pages"
    /\ \E p \in todo :
        /\ scans[p].ok
        /\ todo' = todo \ {p}
        /\ parts' = MapInsert(parts, p,
                        reduce_op(identity, InsertPages(Process(p), scans[p].pages, EmptyMap)))
    /\ UNCHANGED <<pc, scans, panics, unwound, result, notBuild>>

\* the closure of map on one process whose read_pages is Err: expect panics
\* with "failed to read pages for pid <pid>"
MapClosurePanic ==
    /\ pc = "all_pages"
    /\ \E p \in todo :
        /\ ~ scans[p].ok
        /\ todo' = todo \ {p}
        /\ panics' = panics \cup {p}
    /\ UNCHANGED <<pc, scans, parts, unwound, result, notBuild>>

\* reduce combines two partial results; which two, and which of them is a,
\* is up to the scheduler
ReduceStep ==
    /\ pc = "all_pages"
    /\ \E i, j \in DOMAIN parts :
        /\ i # j
        /\ parts' = [s \in (DOMAIN parts) \ {j} |->
                        IF s = i THEN reduce_op(parts[i], parts[j]) ELSE parts[s]]
    /\ UNCHANGED <<pc, scans, todo, panics, unwound, result, notBuild>>

\* every closure returned and one partial result is left: all_pages returns it
AllPagesReturn ==
    /\ pc = "all_pages"
    /\ todo = {}
    /\ panics = {}
    /\ \E i \in DOMAIN parts :
        /\ DOMAIN parts = {i}
        /\ result' = << parts[i] >>
    /\ pc' = "all_pages_returned"
    /\ UNCHANGED <<scans, todo, parts, panics, unwound, notBuild>>

\* a closure panicked: the pool hands one of the panics on to the caller of
\* all_pages, which returns nothing
AllPagesUnwind ==
    /\ pc = "all_pages"
    /\ \E p \in panics : unwound' = p
    /\ pc' = "all_pages_panicked"
    /\ UNCHANGED <<scans, todo, parts, panics, result, notBuild>>

NextBuild ==
    MapClosureOk \/ MapClosurePanic \/ ReduceStep \/ AllPagesReturn \/ AllPagesUnwind

SpecBuild == InitBuild /\ [][NextBuild]_vars

\* the page_map the closure returns for process p
PageMapOf(p) == InsertPages(Process(p), scans[p].pages, EmptyMap)

RECURSIVE SequentialReduce(_)
\* the reduce of a pool of one thread: a left fold over procs from identity()
SequentialReduce(n) ==
    IF n = 0 THEN identity ELSE reduce_op(SequentialReduce(n - 1), PageMapOf(n))

\* C5: the FrameIndex all_pages returns is the same for every order and
\* grouping in which the reduce combines the partial indices: it is the one
\* the sequential left fold gives, and on the partial indices of every
\* reachable state the combine is commutative and associative with the empty
\* index as identity.
C5_ReduceOrderIndependent ==
    /\ pc = "all_pages_returned" => result[1] = SequentialReduce(NumProcs)
    /\ \A i, j \in DOMAIN parts :
          /\ reduce_op(parts[i], parts[j]) = reduce_op(parts[j], parts[i])
          /\ reduce_op(identity, parts[i]) = parts[i]
          /\ reduce_op(parts[i], identity) = parts[i]
          /\ \A k \in DOMAIN parts :
                reduce_op(reduce_op(parts[i], parts[j]), parts[k])
                    = reduce_op(parts[i], reduce_op(parts[j], parts[k]))

\* all_pages returned an index in which processes share one frame and do not
\* share another, so that owner sets had to be united
C5_Witness ==
    /\ pc = "all_pages_returned"
    /\ \E f, g \in DOMAIN result[1] :
          /\ Cardinality(result[1][f]) > 1
          /\ Cardinality(result[1][g]) = 1

\* the frame number of a pagemap entry, read off its bits 0..54
FrameOf(entry) == ToNat(entry \cap (0..54))

\* C6: when every scan succeeds, process P is in the owner set of frame f of
\* the returned index iff P has a page with bit 63 (resident) set whose frame
\* number is f; pages that are not resident add neither a key nor an owner,
\* and no owner set holds two processes of one pid.
C6_IndexIsResidentPages ==
    pc = "all_pages_returned" =>
        LET index == result[1]
            Resident(p) == {FrameOf(scans[p].pages[i]) :
                               i \in {n \in 1..Len(scans[p].pages) : 63 \in scans[p].pages[n]}}
        IN  /\ DOMAIN index = UNION {Resident(p) : p \in Pids}
            /\ \A f \in DOMAIN index :
                  /\ \A p \in Pids : (\E q \in index[f] : q.pid = p) <=> f \in Resident(p)
                  /\ \A a, b \in index[f] : a.pid = b.pid => a = b

\* all_pages returned although one process has a page that is swapped out and
\* whose frame field its other pages do not use, and a resident page
C6_Witness ==
    /\ pc = "all_pages_returned"
    /\ \E p \in Pids :
          /\ \E i \in 1..Len(scans[p].pages) : scans[p].pages[i] = {62, 0}
          /\ \E i \in 1..Len(scans[p].pages) : scans[p].pages[i] = {63, 56, 55, 1}
          /\ DOMAIN result[1] = {2}

\* the pids whose read_pages returns Err
Failed == {p \in Pids : ~ scans[p].ok}

\* C10: if the scan of any process fails, all_pages returns no FrameIndex and
\* the run ends in a panic that names a pid whose scan failed; an index is
\* returned only when no scan failed, whatever the interleaving.
C10_FailureAbortsRun ==
    /\ Failed # {} => pc # "all_pages_returned" /\ result = <<>>
    /\ result # <<>> => Failed = {}
    /\ panics \subseteq Failed
    /\ pc = "all_pages_panicked" => unwound \in panics
    /\ (pc = "all_pages" /\ todo = {} /\ Failed # {}) => panics # {}

\* the run was aborted by the one failed process although the closures of all
\* the other processes had returned a page_map with a resident page
C10_Witness ==
    /\ pc = "all_pages_panicked"
    /\ Cardinality(Failed) = 1
    /\ unwound \in Failed
    /\ todo = {}
    /\ \A p \in Pids \ Failed : DOMAIN PageMapOf(p) # {}

-----------------------------------------------------------------------------
(* compress *)

Frames == 0..MaxFrame

FrameIndexInputs == UNION {[K -> OwnerSets] : K \in SUBSET Frames}

PageRange(from, to) == [from |-> from, to |-> to]

InitCompress ==
    /\ pc = "compress"
    /\ pages \in FrameIndexInputs
    /\ iter = DOMAIN pages
    /\ start = 0
    /\ prev = 0
    /\ ret = EmptyMap
    /\ IdlePage
    /\ IdleOffsets
    /\ IdleBuild
    /\ IdleParse

\* the iteration that finds no open range: start == 0
CompressOpen ==
    /\ pc = "compress"
    /\ iter # {}
    /\ LET addr == Min(iter) IN
        /\ start = 0
        /\ start' = addr
        /\ prev' = addr
        /\ iter' = iter \ {addr}
    /\ UNCHANGED <<pc, pages, ret, notCompress>>

\* the iteration that finds addr right after prev
CompressExtend ==
    /\ pc = "compress"
    /\ iter # {}
    /\ LET addr == Min(iter) IN
        /\ start # 0
        /\ prev = addr - 1
        /\ prev' = prev + 1
        /\ iter' = iter \ {addr}
    /\ UNCHANGED <<pc, pages, start, ret, notCompress>>

\* the iteration that finds a gap before addr
CompressClose ==
    /\ pc = "compress"
    /\ iter # {}
    /\ LET addr == Min(iter)
           pids == pages[addr] IN
        /\ start # 0
        /\ prev # addr - 1
        /\ ret' = MapInsert(ret, PageRange(start, addr), pids)
        /\ start' = 0
        /\ iter' = iter \ {addr}
    /\ UNCHANGED <<pc, pages, prev, notCompress>>

CompressReturn ==
    /\ pc = "compress"
    /\ iter = {}
    /\ pc' = "compress_done"
    /\ UNCHANGED <<compressVars, notCompress>>

NextCompress == CompressOpen \/ CompressExtend \/ CompressClose \/ CompressReturn

SpecCompress == InitCompress /\ [][NextCompress]_vars

-----------------------------------------------------------------------------
(* Claims about compress *)

Covers(r, f) == r.from <= f /\ f < r.to

\* C1: no output PageRange covers two frame numbers of the index whose owner
\* sets differ.
C1_NoMergeOfDifferentOwners ==
    pc = "compress_done" =>
        \A r \in DOMAIN ret : \A f, g \in DOMAIN pages :
            Covers(r, f) /\ Covers(r, g) => pages[f] = pages[g]

\* C2: every frame number that is a key of the index lies in [from, to) of
\* exactly one output PageRange.
C2_EveryFrameInExactlyOneRange ==
    pc = "compress_done" =>
        \A f \in DOMAIN pages : Cardinality({r \in DOMAIN ret : Covers(r, f)}) = 1

\* C3: for a non-empty index the range still open at the end of the scan is
\* emitted: the last output PageRange reaches the greatest frame number.
C3_LastRangeReachesGreatestFrame ==
    pc = "compress_done" /\ DOMAIN pages # {} =>
        /\ DOMAIN ret # {}
        /\ LET last == CHOOSE r \in DOMAIN ret : \A q \in DOMAIN ret : q.from <= r.from
           IN  Covers(last, Max(DOMAIN pages))

\* C4: every frame number in [from, to) of an emitted PageRange is a key of
\* the index, and its owner set in the index is the set emitted with the range.
C4_RangeOwnersAreExact ==
    \A r \in DOMAIN ret : \A f \in r.from..(r.to - 1) :
        f \in DOMAIN pages /\ pages[f] = ret[r]

====
